---- MODULE Spec2Model ----
(***************************************************************************)
(* Model of tools/fetch_from_arxiv.py: configuration loading, the query    *)
(* builder, the paginated fetch loop, the JSONL sink and the PDF           *)
(* downloader.                                                             *)
(*                                                                         *)
(* Python strings are modelled as sequences of tokens (each token a TLA+   *)
(* string standing for a run of characters), so that replace(), "in" and   *)
(* the regular expression of normalize_arxiv_id are computed on the text.  *)
(* Python dicts are functions whose DOMAIN is the set of keys present.     *)
(* Python's None, where a string is expected, is the reserved one-token    *)
(* sequence NoneStr.                                                       *)
(***************************************************************************)
EXTENDS Integers, Sequences, FiniteSets, TLC

\* ------------------------------------------------------------------ bounds
MaxTotal == 2
MaxBatch == 2
MaxPageLen == 2
MaxRuns == 2

\* ------------------------------------------------------- Python primitives
NoneStr == <<"<None>">>

Get(d, k, default) == IF k \in DOMAIN d THEN d[k] ELSE default

Min(a, b) == IF a <= b THEN a ELSE b

RECURSIVE Concat(_)
Concat(ss) == IF ss = <<>> THEN <<>> ELSE Head(ss) \o Concat(Tail(ss))

\* sep.join(parts)
RECURSIVE Join(_, _)
Join(sep, parts) ==
  IF parts = <<>> THEN <<>>
  ELSE IF Len(parts) = 1 THEN parts[1]
  ELSE parts[1] \o sep \o Join(sep, Tail(parts))

\* s.replace(old, new), for a pattern old that is exactly one token
ReplaceTok(s, old, new) == [i \in 1..Len(s) |-> IF s[i] = old THEN new ELSE s[i]]

Contains(s, tok) == \E i \in 1..Len(s) : s[i] = tok

\* ---------------------------------------------------------------- constants
DEFAULT_ARXIV_API == <<"https://", "export.arxiv.org", "/", "api", "/", "query">>

CustomApi == <<"http://", "mirror", "/", "api">>
OtherApi == <<"http://", "other", "/", "api">>

required_fields ==
  <<"out_jsonl", "download_pdfs", "pdf_dir", "batch_size", "total_to_fetch",
    "keywords", "ArXiv_categories">>

RequiredSet == {required_fields[i] : i \in 1..Len(required_fields)}

ConfigKeys == RequiredSet \cup {"arxiv_api", "ArXiv_api"}

\* ------------------------------------------------------------- build_query
KwClause(kw) == <<"all:\"">> \o kw \o <<"\"">>
CatClause(c) == <<"cat:">> \o c

\* mutant of build_query: the category part is added for an empty list too
build_query_AlwaysCats(keywords, categories) ==
  LET kw_part == Join(<<" OR ">>, [i \in 1..Len(keywords) |-> KwClause(keywords[i])])
      cat_part == Join(<<" OR ">>, [i \in 1..Len(categories) |-> CatClause(categories[i])])
  IN <<"(">> \o kw_part \o <<") AND (">> \o cat_part \o <<")">>

build_query(keywords, categories) ==
  LET kw_part == Join(<<" OR ">>, [i \in 1..Len(keywords) |-> KwClause(keywords[i])])
  IN IF categories # <<>>
       THEN LET cat_part == Join(<<" OR ">>, [i \in 1..Len(categories) |-> CatClause(categories[i])])
            IN <<"(">> \o kw_part \o <<") AND (">> \o cat_part \o <<")">>
       ELSE <<"(">> \o kw_part \o <<")">>

build_search_query(cfg) ==
  build_query(Get(cfg, "keywords", <<>>), Get(cfg, "ArXiv_categories", <<>>))

\* ------------------------------------------------------ normalize_arxiv_id
\* tokens that contain the character "/"
HasSlash(tok) == tok \in {"https://", "http://", "/abs/", "/pdf/", "/"}

\* positions i where r"/abs/([^/]+)$" matches starting at token i
AbsMatches(s) ==
  {i \in 1..Len(s) : /\ s[i] = "/abs/"
                     /\ i < Len(s)
                     /\ \A j \in (i+1)..Len(s) : ~HasSlash(s[j])}

normalize_arxiv_id(entry_id) ==
  IF AbsMatches(entry_id) # {}
    THEN LET i == CHOOSE k \in AbsMatches(entry_id) : \A m \in AbsMatches(entry_id) : k <= m
         IN SubSeq(entry_id, i + 1, Len(entry_id))
    ELSE entry_id

\* --------------------------------------------------------- extract_pdf_url
PdfLinks(links) == {i \in 1..Len(links) : Get(links[i], "type", NoneStr) = <<"application/pdf">>}

\* mutant of extract_pdf_url: the fallback keeps the scheme of the identifier
extract_pdf_url_KeepScheme(entry) ==
  LET links == Get(entry, "links", <<>>)
  IN IF PdfLinks(links) # {}
       THEN LET i == CHOOSE k \in PdfLinks(links) : \A m \in PdfLinks(links) : k <= m
            IN Get(links[i], "href", NoneStr)
       ELSE IF Get(entry, "id", NoneStr) \notin {NoneStr, <<>>}
         THEN IF Contains(entry["id"], "/abs/")
                THEN ReplaceTok(entry["id"], "/abs/", "/pdf/") \o <<".pdf">>
                ELSE NoneStr
         ELSE NoneStr

extract_pdf_url(entry) ==
  LET links == Get(entry, "links", <<>>)
  IN IF PdfLinks(links) # {}
       THEN LET i == CHOOSE k \in PdfLinks(links) : \A m \in PdfLinks(links) : k <= m
            IN Get(links[i], "href", NoneStr)
       ELSE IF Get(entry, "id", NoneStr) \notin {NoneStr, <<>>}
         THEN LET abs_url == ReplaceTok(entry["id"], "https://", "http://")
              IN IF Contains(abs_url, "/abs/")
                   THEN ReplaceTok(abs_url, "/abs/", "/pdf/") \o <<".pdf">>
                   ELSE NoneStr
         ELSE NoneStr

\* ------------------------------------------------------------- fetch_entry
IsSpace(tok) == tok \in {" ", "\n", "\t"}

RECURSIVE LStrip(_)
LStrip(s) == IF s # <<>> /\ IsSpace(Head(s)) THEN LStrip(Tail(s)) ELSE s

RECURSIVE RStrip(_)
RStrip(s) == IF s # <<>> /\ IsSpace(s[Len(s)]) THEN RStrip(SubSeq(s, 1, Len(s) - 1)) ELSE s

Strip(s) == RStrip(LStrip(s))

\* (x or "")
OrEmpty(x) == IF x = NoneStr THEN <<>> ELSE x

CleanText(x) == Strip(ReplaceTok(OrEmpty(x), "\n", " "))

Truthy(x) == x \notin {NoneStr, <<>>}

\* [d.get(key) for d in items if d.get(key)]
Collect(items, key) ==
  LET F[i \in 0..Len(items)] ==
        IF i = 0 THEN <<>>
        ELSE IF Truthy(Get(items[i], key, NoneStr))
          THEN Append(F[i-1], items[i][key])
          ELSE F[i-1]
  IN F[Len(items)]

UtcNow == <<"utcnow">>

fetch_entry(e) ==
  [ arxiv_id |-> normalize_arxiv_id(Get(e, "id", <<>>)),
    title |-> CleanText(Get(e, "title", NoneStr)),
    summary |-> CleanText(Get(e, "summary", NoneStr)),
    authors |-> Collect(Get(e, "authors", <<>>), "name"),
    published |-> Get(e, "published", NoneStr),
    updated |-> Get(e, "updated", NoneStr),
    abs_url |-> Get(e, "id", NoneStr),
    pdf_url |-> extract_pdf_url(e),
    categories |-> Collect(Get(e, "tags", <<>>), "term"),
    fetched_at_utc |-> UtcNow \o <<"Z">> ]

\* records = [fetch_entry(e) for e in entries]
NormalizeAll(entries) == [i \in 1..Len(entries) |-> fetch_entry(entries[i])]

\* ------------------------------------------------------------ feed entries
\* an entry with every field, whose PDF address comes from the /abs/ fallback
EntryAbs ==
  [ id |-> <<"http://", "host", "/abs/", "2401.00001v2">>,
    title |-> <<" ", "Attention", "\n", "Again", " ">>,
    summary |-> <<"A", "\n", "summary">>,
    authors |-> << [name |-> <<"Ada">>], [affiliation |-> <<"X">>] >>,
    published |-> <<"2024-01-01">>,
    updated |-> <<"2024-01-02">>,
    links |-> << [type |-> <<"text/html">>, href |-> <<"http://", "host", "/abs/", "2401.00001v2">>] >>,
    tags |-> << [term |-> <<"cs.CL">>] >> ]

\* an entry with an explicit PDF link and an https identifier
EntryLink ==
  [ id |-> <<"https://", "host", "/abs/", "2401.00002">>,
    links |-> << [type |-> <<"application/pdf">>, href |-> <<"https://", "host", "/pdf/", "2401.00002">>] >> ]

\* an entry whose identifier has no /abs/ segment: no PDF address
EntryBare == [ id |-> <<"urn:", "2401.00003">> ]

\* an old-style identifier, whose paper number contains a "/"
EntryOld == [ id |-> <<"http://", "host", "/abs/", "hep-th", "/", "9901001">> ]

Entries == {EntryAbs, EntryLink, EntryBare, EntryOld}

\* the n entries a well-behaved server lists after offset start; their
\* identifiers have no /abs/ segment, so they carry no PDF address
BulkEntry(n) == [ id |-> <<"urn:", ToString(n)>> ]
BulkPage(start, n) == [i \in 1..n |-> BulkEntry(start + i)]

\* the page sizes and totals of the two large pagination scenarios
BulkSizes == {0, 30, 100}
BulkTotals == {150, 250}

SeqsUpTo(S, n) == UNION {[1..k -> S] : k \in 0..n}

SmallPages == SeqsUpTo(Entries, MaxPageLen)

\* what one arxiv_search call may return: any feed, whatever was requested
Feeds(total_to_fetch, start) ==
  IF total_to_fetch \in BulkTotals
    THEN {BulkPage(start, n) : n \in BulkSizes}
    ELSE SmallPages

\* ------------------------------------------------------ configuration files
FullConfig(total, batch, dl) ==
  [ out_jsonl |-> <<"data", "/", "papers.jsonl">>,
    download_pdfs |-> dl,
    pdf_dir |-> <<"data", "/", "pdfs">>,
    batch_size |-> batch,
    total_to_fetch |-> total,
    keywords |-> << <<"llm">>, <<"rag">> >>,
    ArXiv_categories |-> << <<"cs.CL">> >>,
    arxiv_api |-> CustomApi,
    ArXiv_api |-> OtherApi ]

Restrict(f, ks) == [k \in ks |-> f[k]]

FullConfigs ==
  {FullConfig(t, b, dl) : t \in -1..MaxTotal, b \in 1..MaxBatch, dl \in BOOLEAN}
  \cup {FullConfig(t, 100, FALSE) : t \in BulkTotals}

\* what yaml.safe_load returns: None for an empty document, else a mapping
NullDoc == [doc |-> "null"]
MapDoc(m) == [doc |-> "mapping", map |-> m]

\* the empty file, every choice of values with exactly the required keys, and
\* every choice of keys (required and optional) with one choice of values
ConfigDocs ==
  {NullDoc}
  \cup {MapDoc(Restrict(c, RequiredSet)) : c \in FullConfigs}
  \cup {MapDoc(Restrict(FullConfig(1, 1, TRUE), ks)) : ks \in SUBSET ConfigKeys}

config_file == <<"fetch_from_arxiv.config.yaml">>

\* ------------------------------------------------------------------- files
\* json.dumps(rec) + "\n": one line of the JSONL file
JsonLine(rec) == [json |-> rec]

\* the remote artifact behind a URL, as the chunks iter_content yields
ArtifactChunks == 2
Artifact(url) == [i \in 1..ArtifactChunks |-> <<url, i>>]

\* tok.replace("/", "_")
Underscored(tok) ==
  CASE tok = "/" -> "_"
    [] tok = "/abs/" -> "_abs_"
    [] tok = "/pdf/" -> "_pdf_"
    [] tok = "http://" -> "http:__"
    [] tok = "https://" -> "https:__"
    [] OTHER -> tok

safe_name(arxiv_id) == [i \in 1..Len(arxiv_id) |-> Underscored(arxiv_id[i])]

\* os.path.join(pdf_dir, f"{safe_name}.pdf")
pdf_path(pdf_dir, arxiv_id) == pdf_dir \o <<"/">> \o safe_name(arxiv_id) \o <<".pdf">>

OldRecord == fetch_entry(EntryAbs)

NoFiles == [p \in {} |-> <<>>]

\* the disk before the run: untouched, or as an earlier run over EntryAbs left it
InitialDisks ==
  { [sink |-> <<>>, dir |-> NoFiles],
    [sink |-> <<JsonLine(OldRecord)>>,
     dir |-> [p \in {pdf_path(<<"data", "/", "pdfs">>, OldRecord.arxiv_id)} |->
                Artifact(OldRecord.pdf_url)]] }

\* ------------------------------------------------------------------- state
VARIABLES
  doc,          \* content of the configuration file (input, never written)
  pc,           \* position of main
  config,       \* the dict load_config returned
  err,          \* the exception that ended the run, if any
  query,        \* the search query string
  fetched,      \* fetch_and_process_papers: fetched
  all_records,  \* fetch_and_process_papers: all_records
  returned,     \* main: all_records, the value fetch_and_process_papers returned
  sink,         \* lines of the out_jsonl file
  sink0,        \* lines of the out_jsonl file when the run started
  dir,          \* files of pdf_dir: path -> chunks written
  idx,          \* download_pdfs_for_records: position in records
  run,          \* number of the current download_pdfs_for_records call
  log           \* observable events of the run, in order

vars == <<doc, pc, config, err, query, fetched, all_records, returned, sink, sink0,
          dir, idx, run, log>>

NoErr == [type |-> "none", msg |-> <<>>]
NoConfig == [k \in {} |-> <<>>]

Init ==
  /\ doc \in ConfigDocs
  /\ \E d \in InitialDisks : sink = d.sink /\ dir = d.dir
  /\ sink0 = sink
  /\ pc = "load_config"
  /\ config = NoConfig
  /\ err = NoErr
  /\ query = <<>>
  /\ fetched = 0
  /\ all_records = <<>>
  /\ returned = <<>>
  /\ idx = 0
  /\ run = 0
  /\ log = <<>>

Raise(type, msg) ==
  /\ pc' = "error"
  /\ err' = [type |-> type, msg |-> msg]

\* ------------------------------------------------------------- load_config
\* line 160-161: the default endpoint is stored when arxiv_api is absent
WithDefaultApi(m) ==
  IF "arxiv_api" \notin DOMAIN m
    THEN [k \in DOMAIN m \cup {"ArXiv_api"} |-> IF k = "ArXiv_api" THEN DEFAULT_ARXIV_API ELSE m[k]]
    ELSE m

MissingFields(m) == {i \in 1..Len(required_fields) : required_fields[i] \notin DOMAIN m}

FirstMissing(m) ==
  required_fields[CHOOSE i \in MissingFields(m) : \A j \in MissingFields(m) : i <= j]

MissingFieldMsg(field) ==
  <<"Missing required field '">> \o <<field>> \o <<"' in config file: ">> \o config_file

LoadConfig ==
  /\ pc = "load_config"
  /\ IF doc.doc = "null"
       THEN \* "arxiv_api" not in None
            /\ Raise("TypeError", <<"argument of type 'NoneType' is not iterable">>)
            /\ UNCHANGED config
       ELSE LET m == WithDefaultApi(doc.map)
            IN IF MissingFields(m) # {}
                 THEN /\ Raise("ValueError", MissingFieldMsg(FirstMissing(m)))
                      /\ UNCHANGED config
                 ELSE /\ config' = m
                      /\ pc' = "build_search_query"
                      /\ UNCHANGED err
  /\ UNCHANGED <<doc, query, fetched, all_records, returned, sink, sink0, dir, idx, run, log>>

BuildSearchQuery ==
  /\ pc = "build_search_query"
  /\ query' = build_search_query(config)
  /\ pc' = "fetch_init"
  /\ UNCHANGED <<doc, config, err, fetched, all_records, returned, sink, sink0, dir, idx, run, log>>

\* ------------------------------------------------ fetch_and_process_papers
\* lines 217-223: read the configuration, then enter the loop
FetchInit ==
  /\ pc = "fetch_init"
  /\ IF "ArXiv_api" \notin DOMAIN config
       THEN Raise("KeyError", <<"'ArXiv_api'">>)
       ELSE /\ pc' = IF 0 < config["total_to_fetch"] THEN "fetching" ELSE "save"
            /\ UNCHANGED err
  /\ fetched' = 0
  /\ all_records' = <<>>
  /\ UNCHANGED <<doc, config, query, returned, sink, sink0, dir, idx, run, log>>

\* mutant of Request: every page is requested with the full batch_size
Request_FullBatch ==
  [ ev |-> "request",
    search_query |-> query,
    start |-> fetched,
    max_results |-> config["batch_size"],
    arxiv_api |-> config["ArXiv_api"] ]

\* the arguments of the arxiv_search call of lines 226-231
Request ==
  [ ev |-> "request",
    search_query |-> query,
    start |-> fetched,
    max_results |-> Min(config["batch_size"], config["total_to_fetch"] - fetched),
    arxiv_api |-> config["ArXiv_api"] ]

\* feed.get("entries", []) of the feed the call returned
Response(entries) == [ev |-> "response", entries |-> entries]

\* time.sleep(1.0)
Sleep == [ev |-> "sleep"]

\* mutant of FetchRaise: the records of the completed pages are written before
\* the error leaves the function
FetchRaise_PartialCommit ==
  /\ pc = "fetching"
  /\ log' = log \o <<Request, [ev |-> "raise"]>>
  /\ sink' = sink \o [i \in 1..Len(all_records) |-> JsonLine(all_records[i])]
  /\ Raise("RequestException", <<"arxiv_search failed">>)
  /\ UNCHANGED <<doc, config, query, fetched, all_records, returned, sink0, dir, idx, run>>

\* arxiv_search raises (transport error or raise_for_status): nothing catches it
FetchRaise ==
  /\ pc = "fetching"
  /\ log' = log \o <<Request, [ev |-> "raise"]>>
  /\ Raise("RequestException", <<"arxiv_search failed">>)
  /\ UNCHANGED <<doc, config, query, fetched, all_records, returned, sink, sink0, dir, idx, run>>

\* mutant of FetchEmpty: the break of line 236 is missing
FetchEmpty_NoBreak ==
  /\ pc = "fetching"
  /\ <<>> \in Feeds(config["total_to_fetch"], fetched)
  /\ log' = log \o <<Request, Response(<<>>)>>
  /\ pc' = "fetching"
  /\ UNCHANGED <<doc, config, err, query, fetched, all_records, returned, sink, sink0, dir, idx, run>>

\* lines 233-236: the feed has no entries
FetchEmpty ==
  /\ pc = "fetching"
  /\ <<>> \in Feeds(config["total_to_fetch"], fetched)
  /\ log' = log \o <<Request, Response(<<>>)>>
  /\ pc' = "save"
  /\ UNCHANGED <<doc, config, err, query, fetched, all_records, returned, sink, sink0, dir, idx, run>>

\* mutant of FetchPage: the offset advances by the number of entries requested
FetchPage_AdvanceByRequested ==
  /\ pc = "fetching"
  /\ \E entries \in Feeds(config["total_to_fetch"], fetched) :
       /\ entries # <<>>
       /\ all_records' = all_records \o NormalizeAll(entries)
       /\ fetched' = fetched + Request.max_results
       /\ log' = log \o <<Request, Response(entries), Sleep>>
       /\ pc' = IF fetched' < config["total_to_fetch"] THEN "fetching" ELSE "save"
  /\ UNCHANGED <<doc, config, err, query, returned, sink, sink0, dir, idx, run>>

\* mutant of FetchPage: the time.sleep of line 244 is missing
FetchPage_NoSleep ==
  /\ pc = "fetching"
  /\ \E entries \in Feeds(config["total_to_fetch"], fetched) :
       /\ entries # <<>>
       /\ all_records' = all_records \o NormalizeAll(entries)
       /\ fetched' = fetched + Len(entries)
       /\ log' = log \o <<Request, Response(entries)>>
       /\ pc' = IF fetched' < config["total_to_fetch"] THEN "fetching" ELSE "save"
  /\ UNCHANGED <<doc, config, err, query, returned, sink, sink0, dir, idx, run>>

\* mutant of FetchPage: the line fetched += len(entries) is missing
FetchPage_NoAdvance ==
  /\ pc = "fetching"
  /\ \E entries \in Feeds(config["total_to_fetch"], fetched) :
       /\ entries # <<>>
       /\ all_records' = all_records \o NormalizeAll(entries)
       /\ log' = log \o <<Request, Response(entries), Sleep>>
  /\ pc' = "fetching"
  /\ UNCHANGED <<doc, config, err, query, fetched, returned, sink, sink0, dir, idx, run>>

\* lines 238-244 and the loop test of line 225
FetchPage ==
  /\ pc = "fetching"
  /\ \E entries \in Feeds(config["total_to_fetch"], fetched) :
       /\ entries # <<>>
       /\ all_records' = all_records \o NormalizeAll(entries)
       /\ fetched' = fetched + Len(entries)
       /\ log' = log \o <<Request, Response(entries), Sleep>>
       /\ pc' = IF fetched' < config["total_to_fetch"] THEN "fetching" ELSE "save"
  /\ UNCHANGED <<doc, config, err, query, returned, sink, sink0, dir, idx, run>>

\* mutant of save_jsonl: the file is opened with "w" and loses its earlier lines
save_jsonl_Truncate(lines, records) == [i \in 1..Len(records) |-> JsonLine(records[i])]

\* save_jsonl: open(path, "a") and one line per record
save_jsonl(lines, records) == lines \o [i \in 1..Len(records) |-> JsonLine(records[i])]

\* lines 247-250
SaveAndReturn ==
  /\ pc = "save"
  /\ sink' = save_jsonl(sink, all_records)
  /\ log' = Append(log, [ev |-> "save", n |-> Len(all_records)])
  /\ returned' = all_records
  /\ pc' = "download_gate"
  /\ UNCHANGED <<doc, config, err, query, fetched, all_records, sink0, dir, idx, run>>

\* --------------------------------------------------------------------- main
\* mutant of DownloadGate: the downloader is called whatever download_pdfs says
DownloadGate_Ungated ==
  /\ pc = "download_gate"
  /\ run' = 1
  /\ idx' = 1
  /\ pc' = IF returned = <<>> THEN "done" ELSE "downloading"
  /\ UNCHANGED <<doc, config, err, query, fetched, all_records, returned, sink, sink0, dir, log>>

\* line 260
DownloadGate ==
  /\ pc = "download_gate"
  /\ IF config["download_pdfs"]
       THEN /\ run' = 1
            /\ idx' = 1
            /\ pc' = IF returned = <<>> THEN "done" ELSE "downloading"
       ELSE /\ pc' = "done"
            /\ UNCHANGED <<run, idx>>
  /\ UNCHANGED <<doc, config, err, query, fetched, all_records, returned, sink, sink0, dir, log>>

\* ------------------------------------------------ download_pdfs_for_records
Rec == returned[idx]

RecPath == pdf_path(config["pdf_dir"], Rec.arxiv_id)

\* os.path.exists(pdf_path)
Exists(path) == path \in DOMAIN dir

WriteFile(path, chunks) ==
  [p \in DOMAIN dir \cup {path} |-> IF p = path THEN chunks ELSE dir[p]]

\* the loop of line 182 moves to the next record, or the function returns
Advance ==
  /\ idx' = idx + 1
  /\ pc' = IF idx + 1 > Len(returned) THEN "done" ELSE "downloading"

Transfer == [ev |-> "transfer", run |-> run, i |-> idx, url |-> Rec.pdf_url, path |-> RecPath]

\* lines 183-185: no pdf_url
DownloadSkipNoUrl ==
  /\ pc = "downloading"
  /\ ~Truthy(Rec.pdf_url)
  /\ Advance
  /\ UNCHANGED <<doc, config, err, query, fetched, all_records, returned, sink, sink0, dir, run, log>>

\* mutant of DownloadSkipExists: the os.path.exists test is missing and the
\* artifact is fetched again
DownloadSkipExists_Refetch ==
  /\ pc = "downloading"
  /\ Truthy(Rec.pdf_url)
  /\ Exists(RecPath)
  /\ dir' = WriteFile(RecPath, Artifact(Rec.pdf_url))
  /\ log' = log \o <<Transfer, [ev |-> "downloaded", run |-> run, i |-> idx], Sleep>>
  /\ Advance
  /\ UNCHANGED <<doc, config, err, query, fetched, all_records, returned, sink, sink0, run>>

\* line 189: the destination exists
DownloadSkipExists ==
  /\ pc = "downloading"
  /\ Truthy(Rec.pdf_url)
  /\ Exists(RecPath)
  /\ Advance
  /\ UNCHANGED <<doc, config, err, query, fetched, all_records, returned, sink, sink0, dir, run, log>>

\* mutant of DownloadOk: the time.sleep of line 194 is missing
DownloadOk_NoSleep ==
  /\ pc = "downloading"
  /\ Truthy(Rec.pdf_url)
  /\ ~Exists(RecPath)
  /\ dir' = WriteFile(RecPath, Artifact(Rec.pdf_url))
  /\ log' = log \o <<Transfer, [ev |-> "downloaded", run |-> run, i |-> idx]>>
  /\ Advance
  /\ UNCHANGED <<doc, config, err, query, fetched, all_records, returned, sink, sink0, run>>

\* lines 190-194 with download_pdf returning normally
DownloadOk ==
  /\ pc = "downloading"
  /\ Truthy(Rec.pdf_url)
  /\ ~Exists(RecPath)
  /\ dir' = WriteFile(RecPath, Artifact(Rec.pdf_url))
  /\ log' = log \o <<Transfer, [ev |-> "downloaded", run |-> run, i |-> idx], Sleep>>
  /\ Advance
  /\ UNCHANGED <<doc, config, err, query, fetched, all_records, returned, sink, sink0, run>>

\* line 196: the failure is printed, whatever the exception was
Failed == [ev |-> "failed", run |-> run, i |-> idx, arxiv_id |-> Rec.arxiv_id]

\* mutant of DownloadFailBeforeWrite: no except clause, the error leaves the loop
DownloadFailBeforeWrite_Abort ==
  /\ pc = "downloading"
  /\ Truthy(Rec.pdf_url)
  /\ ~Exists(RecPath)
  /\ log' = log \o <<Transfer, Failed>>
  /\ Raise("RequestException", <<"download_pdf failed">>)
  /\ UNCHANGED <<doc, config, query, fetched, all_records, returned, sink, sink0, dir, idx, run>>

\* download_pdf raises at requests.get, raise_for_status or open(): lines 107-109
DownloadFailBeforeWrite ==
  /\ pc = "downloading"
  /\ Truthy(Rec.pdf_url)
  /\ ~Exists(RecPath)
  /\ log' = log \o <<Transfer, Failed>>
  /\ Advance
  /\ UNCHANGED <<doc, config, err, query, fetched, all_records, returned, sink, sink0, dir, run>>

\* download_pdf raises inside the chunk loop of lines 110-112, after open(out_path, "wb")
\* created the file and k chunks were written
DownloadFailMidStream ==
  /\ pc = "downloading"
  /\ Truthy(Rec.pdf_url)
  /\ ~Exists(RecPath)
  /\ \E k \in 0..(ArtifactChunks - 1) :
       /\ dir' = WriteFile(RecPath, SubSeq(Artifact(Rec.pdf_url), 1, k))
       /\ log' = log \o <<Transfer, Failed>>
  /\ Advance
  /\ UNCHANGED <<doc, config, err, query, fetched, all_records, returned, sink, sink0, run>>

\* a later call of download_pdfs_for_records over the same records and directory
DownloadAgain ==
  /\ pc = "done"
  /\ run >= 1
  /\ run < MaxRuns
  /\ returned # <<>>
  /\ run' = run + 1
  /\ idx' = 1
  /\ pc' = "downloading"
  /\ UNCHANGED <<doc, config, err, query, fetched, all_records, returned, sink, sink0, dir, log>>

Next ==
  \/ LoadConfig
  \/ BuildSearchQuery
  \/ FetchInit
  \/ FetchRaise
  \/ FetchEmpty
  \/ FetchPage
  \/ SaveAndReturn
  \/ DownloadGate
  \/ DownloadSkipNoUrl
  \/ DownloadSkipExists
  \/ DownloadOk
  \/ DownloadFailBeforeWrite
  \/ DownloadFailMidStream
  \/ DownloadAgain

Spec == Init /\ [][Next]_vars

\* ------------------------------------------------------- reading the log
Requests == SelectSeq(log, LAMBDA e : e.ev = "request")

Responses == SelectSeq(log, LAMBDA e : e.ev = "response")

PageSizes == [i \in 1..Len(Responses) |-> Len(Responses[i].entries)]

\* the entries of the first n pages, in the order the API returned them
ReceivedUpTo(n) == Concat([i \in 1..n |-> Responses[i].entries])

Received == ReceivedUpTo(Len(Responses))

Count(ev) == Cardinality({i \in 1..Len(log) : log[i].ev = ev})

Loaded == pc \notin {"load_config", "error"} \/ (pc = "error" /\ err.type \in {"KeyError", "RequestException"})

AfterSave == pc \in {"download_gate", "downloading", "done"}

IsScenario(total, batch, sizes) ==
  /\ Loaded
  /\ config["total_to_fetch"] = total
  /\ config["batch_size"] = batch
  /\ PageSizes = sizes

\* ---------------------------------------------------------------------- C1
\* C1: a page with zero entries ends the loop: no request follows it, the
\* run goes on to save exactly the records of the earlier pages, whether or
\* not total_to_fetch was reached; and with total_to_fetch = 250,
\* batch_size = 100 and pages of 100, 100 and 0 entries the run has 200
\* records after 3 requests.
EmptyPageIsTerminal ==
  /\ \A i \in 1..Len(log) :
       (log[i].ev = "response" /\ log[i].entries = <<>>) =>
         /\ \A j \in (i + 1)..Len(log) : log[j].ev # "request"
         /\ pc \in {"save", "download_gate", "downloading", "done"}
         /\ err = NoErr
         /\ all_records = NormalizeAll(Received)
         /\ AfterSave => returned = all_records
  /\ IsScenario(250, 100, <<100, 100, 0>>) =>
       /\ pc # "fetching"
       /\ Len(all_records) = 200
       /\ Len(Requests) = 3

\* the 250/100 scenario has run to its end, short of the requested total
EmptyPageWitness ==
  /\ IsScenario(250, 100, <<100, 100, 0>>)
  /\ pc = "done"
  /\ Len(returned) = 200
  /\ Len(returned) < config["total_to_fetch"]

\* ---------------------------------------------------------------------- C2
\* C2: the offset advances by the number of entries a page held, not by the
\* number requested: every request starts at the number of entries received
\* so far; with total_to_fetch = 150, batch_size = 100 and pages of 100, 30
\* and 0 entries the requests start at 0, 100 and 130 and the run stops with
\* 130 records.
OffsetAdvancesByActualCount ==
  /\ fetched = Len(Received)
  /\ \A k \in 1..Len(Requests) : Requests[k].start = Len(ReceivedUpTo(k - 1))
  /\ IsScenario(150, 100, <<100, 30, 0>>) =>
       /\ [k \in 1..3 |-> Requests[k].start] = <<0, 100, 130>>
       /\ pc # "fetching"
       /\ Len(all_records) = 130
       /\ AfterSave => Len(returned) = 130 /\ Len(sink) = Len(sink0) + 130

\* a page shorter than requested was followed by a request at the actual offset
ShortPageWitness ==
  /\ IsScenario(150, 100, <<100, 30, 0>>)
  /\ pc = "done"
  /\ Requests[2].max_results = 50
  /\ Requests[3].start = 130
  /\ Len(returned) = 130

\* ---------------------------------------------------------------------- C3
\* C3: when an arxiv_search call raises, on the first or a later page, the
\* error ends the run: the call is not repeated, no other request follows,
\* save_jsonl is not called and the sink is as it was before the run.
FetchErrorAbortsWithoutCommit ==
  /\ Count("raise") <= 1
  /\ Count("raise") = 1 =>
       /\ log[Len(log)].ev = "raise"
       /\ pc = "error"
       /\ err.type = "RequestException"
       /\ ~ENABLED Next
       /\ Count("save") = 0
       /\ sink = sink0
       /\ returned = <<>>
       /\ Count("transfer") = 0

\* a later page raised after an earlier page had delivered records
FetchErrorWitness ==
  /\ Count("raise") = 1
  /\ pc = "error"
  /\ all_records # <<>>
  /\ sink = sink0

\* ---------------------------------------------------------------------- C4
\* positions of the log where an event of kind ev of download run r stands
EventsOf(ev, r) == {n \in 1..Len(log) : log[n].ev = ev /\ log[n].run = r}

HasEvent(ev, r, i) == \E n \in EventsOf(ev, r) : log[n].i = i

\* C4: a failed transfer never aborts the batch. Every record that is reached
\* with a pdf_url and no file at its destination is attempted, whatever failed
\* before it; the loop then moves to the next record without an error; the
\* loop only ends after the last record; attempts are made in input order; and
\* a record whose transfer succeeded has its file afterwards.
FailureNeverAbortsBatch ==
  /\ [][ (pc = "downloading" /\ Truthy(Rec.pdf_url) /\ ~Exists(RecPath)) =>
           /\ Len(log') > Len(log)
           /\ log'[Len(log) + 1] = Transfer
           /\ idx' = idx + 1
           /\ err' = NoErr
           /\ pc' = IF idx < Len(returned) THEN "downloading" ELSE "done" ]_vars
  /\ [](pc = "downloading" => idx \in 1..Len(returned))
  /\ []((pc = "done" /\ run >= 1 /\ returned # <<>>) => idx = Len(returned) + 1)
  /\ [](\A n \in 1..Len(log) : \A m \in 1..Len(log) :
          (n < m /\ log[n].ev = "transfer" /\ log[m].ev = "transfer" /\ log[n].run = log[m].run)
            => log[n].i < log[m].i)
  /\ [](\A n \in 1..Len(log) :
          log[n].ev = "downloaded" =>
            /\ pdf_path(config["pdf_dir"], returned[log[n].i].arxiv_id) \in DOMAIN dir
            /\ pc # "error")

\* three records: the second transfer failed with a transport error, the first
\* and the third were attempted and their files exist
FaultIsolationWitness ==
  /\ pc = "done"
  /\ run = 1
  /\ Len(returned) = 3
  /\ HasEvent("downloaded", 1, 1)
  /\ HasEvent("failed", 1, 2)
  /\ HasEvent("downloaded", 1, 3)
  /\ pdf_path(config["pdf_dir"], returned[1].arxiv_id) \in DOMAIN dir
  /\ pdf_path(config["pdf_dir"], returned[2].arxiv_id) \notin DOMAIN dir
  /\ pdf_path(config["pdf_dir"], returned[3].arxiv_id) \in DOMAIN dir

\* ---------------------------------------------------------------------- C5
\* C5: a record whose destination file exists when it is reached causes no
\* network call and no failure report and leaves the directory as it is; and
\* in a second run, after a first run without any failure, no step makes a
\* network call or changes the directory.
ExistingArtifactIsSkipped ==
  [][ (pc = "downloading" /\ (Exists(RecPath) \/ (run = 2 /\ EventsOf("failed", 1) = {}))) =>
        /\ log' = log
        /\ dir' = dir
        /\ err' = NoErr
        /\ idx' = idx + 1 ]_vars

\* a second run over the records of a first run that downloaded without failure
SecondRunWitness ==
  /\ pc = "done"
  /\ run = 2
  /\ Cardinality(EventsOf("downloaded", 1)) >= 2
  /\ EventsOf("failed", 1) = {}
  /\ EventsOf("transfer", 2) = {}
  /\ Cardinality(DOMAIN dir) >= 2

\* ---------------------------------------------------------------------- C6
\* a file holds a completely received artifact
Complete(chunks) == chunks # <<>> /\ chunks = Artifact(chunks[1][1])

\* C6: no failed transfer leaves a file at the destination: every file in
\* pdf_dir holds a completely received artifact, so that no later run skips a
\* record whose transfer failed.
NoPartialFileAtDestination ==
  \A p \in DOMAIN dir : Complete(dir[p])

\* ---------------------------------------------------------------------- C7
\* C7: a run without fetch error appends to the sink exactly once: after
\* save_jsonl the sink is what it was before the run followed by one line per
\* record, in the order the API returned the entries across the pages, and
\* the same records are returned; before save_jsonl the sink is untouched.
SingleAppendCommit ==
  /\ AfterSave =>
       /\ returned = NormalizeAll(Received)
       /\ sink = sink0 \o [i \in 1..Len(returned) |-> JsonLine(returned[i])]
       /\ Count("save") = 1
  /\ ~AfterSave => sink = sink0 /\ Count("save") = 0

\* a sink with an earlier line received the records of two pages
SingleAppendWitness ==
  /\ pc = "done"
  /\ sink0 # <<>>
  /\ Len(Responses) >= 2
  /\ Len(Responses[1].entries) >= 1
  /\ Len(Responses[2].entries) >= 1
  /\ Len(sink) = Len(sink0) + Len(Received)

\* ---------------------------------------------------------------------- C8
\* C8: total_to_fetch bounds the records of a run: at every point of
\* fetch_and_process_papers and at its end the accumulated, returned and
\* written records number at most total_to_fetch (read for totals >= 0).
TotalIsUpperBound ==
  (Loaded /\ config["total_to_fetch"] >= 0) =>
    /\ Len(all_records) <= config["total_to_fetch"]
    /\ Len(returned) <= config["total_to_fetch"]
    /\ Len(sink) - Len(sink0) <= config["total_to_fetch"]

\* ---------------------------------------------------------------------- C9
\* the keys of the configuration file
FileKeys == IF doc.doc = "null" THEN {} ELSE DOMAIN doc.map

\* C9: with every required field present, the run meets no configuration
\* error and sends every page request to the arxiv_api of the configuration
\* file when the file has one, and to DEFAULT_ARXIV_API when it has none.
EndpointSelection ==
  (doc.doc = "mapping" /\ RequiredSet \subseteq FileKeys /\ pc \notin {"load_config"}) =>
    /\ err.type \notin {"KeyError", "TypeError", "ValueError"}
    /\ \A k \in 1..Len(Requests) :
         Requests[k].arxiv_api =
           IF "arxiv_api" \in FileKeys THEN doc.map["arxiv_api"] ELSE DEFAULT_ARXIV_API

\* --------------------------------------------------------------------- C10
\* C10: a configuration file that lacks a required field (an empty file
\* included) makes load_config fail with an error naming a missing field and
\* the file, before any request, transfer or write to the sink.
MissingFieldIsReported ==
  (RequiredSet \ FileKeys # {} /\ pc # "load_config") =>
    /\ pc = "error"
    /\ err.type = "ValueError"
    /\ \E f \in RequiredSet \ FileKeys : err.msg = MissingFieldMsg(f)
    /\ log = <<>>
    /\ sink = sink0
    /\ config = NoConfig

\* --------------------------------------------------------------------- C11
\* C11: the records of one run are deduplicated: no two records accumulated,
\* returned or written by the run have the same arxiv_id, whatever pages the
\* API returned (read for pages that hold at most the requested number of
\* entries, which is the case the remote API produces).
NoPageExceedsRequest ==
  \A k \in 1..Len(Responses) : Len(Responses[k].entries) <= Requests[k].max_results

NoDuplicateIds ==
  NoPageExceedsRequest =>
    /\ \A i \in 1..Len(all_records) : \A j \in 1..Len(all_records) :
         i # j => all_records[i].arxiv_id # all_records[j].arxiv_id
    /\ \A i \in 1..Len(returned) : \A j \in 1..Len(returned) :
         i # j => returned[i].arxiv_id # returned[j].arxiv_id
    /\ \A i \in (Len(sink0) + 1)..Len(sink) : \A j \in (Len(sink0) + 1)..Len(sink) :
         i # j => sink[i].json.arxiv_id # sink[j].json.arxiv_id

\* ------------------------------------------------- the functions on their own
\* A second specification calls fetch_entry and build_search_query directly,
\* on inputs drawn from the sets below.
MaxKeywords == 2
MaxCategories == 2

EmptyDict == [k \in {} |-> <<>>]

\* dict(f, **g)
Merge(f, g) == [k \in DOMAIN f \cup DOMAIN g |-> IF k \in DOMAIN g THEN g[k] ELSE f[k]]

HtmlLink == [type |-> <<"text/html">>, href |-> <<"http://", "host", "/abs/", "2401.12345">>]
PdfLinkA == [type |-> <<"application/pdf">>, href |-> <<"http://", "host", "/pdf/", "2401.12345v1">>]
PdfLinkB == [type |-> <<"application/pdf">>, href |-> <<"http://", "mirror", "/pdf/", "2401.12345v1">>]
PdfLinkNoHref == [type |-> <<"application/pdf">>]
UntypedLink == [href |-> <<"http://", "host", "/", "x">>]

IdParts ==
  {EmptyDict}
  \cup {[id |-> v] : v \in { <<>>,
                             <<"http://", "host", "/abs/", "2401.12345v2">>,
                             <<"https://", "host", "/abs/", "2401.12345">>,
                             <<"https://", "host", "/abs/", "hep-th", "/", "9901001">>,
                             <<"urn:", "2401.12345">> }}

LinkParts ==
  {EmptyDict}
  \cup {[links |-> v] : v \in { <<>>,
                                <<HtmlLink>>,
                                <<UntypedLink, HtmlLink>>,
                                <<PdfLinkA>>,
                                <<HtmlLink, PdfLinkB, PdfLinkA>>,
                                <<PdfLinkNoHref, PdfLinkA>> }}

OtherParts ==
  { EmptyDict,
    [title |-> <<"\n", "A", "\n", "title", " ">>],
    [title |-> <<"T">>, summary |-> <<" ", "S">>, published |-> <<"2024-01-01">>,
     updated |-> <<"2024-01-02">>,
     authors |-> << [name |-> <<"Ada">>], EmptyDict, [name |-> <<"Bob">>] >>,
     tags |-> << [term |-> <<"cs.CL">>], [scheme |-> <<"s">>], [term |-> <<"cs.AI">>] >>] }

RawEntries == {Merge(Merge(i, l), o) : i \in IdParts, l \in LinkParts, o \in OtherParts}

KeywordChoices == { <<"llm">>, <<"rag">>, <<"large", " ", "language", " ", "model">> }
CategoryChoices == { <<"cs.CL">>, <<"cs.AI">> }

QueryConfigs ==
  {[keywords |-> ks] : ks \in SeqsUpTo(KeywordChoices, MaxKeywords)}
  \cup {[keywords |-> ks, ArXiv_categories |-> cs] :
          ks \in SeqsUpTo(KeywordChoices, MaxKeywords),
          cs \in SeqsUpTo(CategoryChoices, MaxCategories)}

UnitInit ==
  /\ doc = NullDoc
  /\ sink = <<>>
  /\ sink0 = <<>>
  /\ dir = NoFiles
  /\ pc = "start"
  /\ config = NoConfig
  /\ err = NoErr
  /\ query = <<>>
  /\ fetched = 0
  /\ all_records = <<>>
  /\ returned = <<>>
  /\ idx = 0
  /\ run = 0
  /\ log = <<>>

\* records = [fetch_entry(e) for e in entries], for a feed of one entry
CallFetchEntry ==
  /\ pc = "start"
  /\ \E e \in RawEntries :
       /\ log' = <<Response(<<e>>)>>
       /\ all_records' = NormalizeAll(<<e>>)
  /\ pc' = "normalized"
  /\ UNCHANGED <<doc, config, err, query, fetched, returned, sink, sink0, dir, idx, run>>

\* query = build_search_query(config)
CallBuildSearchQuery ==
  /\ pc = "start"
  /\ \E c \in QueryConfigs :
       /\ config' = c
       /\ query' = build_search_query(c)
  /\ pc' = "built"
  /\ UNCHANGED <<doc, err, fetched, all_records, returned, sink, sink0, dir, idx, run, log>>

UnitNext ==
  \/ CallFetchEntry
  \/ CallBuildSearchQuery

UnitSpec == UnitInit /\ [][UnitNext]_vars

\* the entry given to fetch_entry and the record it produced
RawEntry == log[1].entries[1]
Record == all_records[1]

\* --------------------------------------------------------------------- C12
\* C12: fetch_entry is total and maps absent fields to empty values: every
\* absent field among title, summary, published, updated gives the empty
\* string and absent authors or tags give the empty sequence; in particular
\* an entry with only an id gives a record with all of these empty.
AbsentFieldsAreEmpty ==
  (pc = "normalized" /\ "id" \in DOMAIN RawEntry) =>
    /\ "title" \notin DOMAIN RawEntry => Record.title = <<>>
    /\ "summary" \notin DOMAIN RawEntry => Record.summary = <<>>
    /\ "published" \notin DOMAIN RawEntry => Record.published = <<>>
    /\ "updated" \notin DOMAIN RawEntry => Record.updated = <<>>
    /\ "authors" \notin DOMAIN RawEntry => Record.authors = <<>>
    /\ "tags" \notin DOMAIN RawEntry => Record.categories = <<>>

\* --------------------------------------------------------------------- C13
\* C13: main runs its stages in the order pagination, sink, downloader: every
\* transfer comes after the append to the sink, no page request comes after
\* it, and with download_pdfs false there is no transfer at all.
StagesInOrder ==
  /\ \A n \in 1..Len(log) :
       log[n].ev = "transfer" =>
         /\ \E m \in 1..(n - 1) : log[m].ev = "save"
         /\ sink = save_jsonl(sink0, returned)
  /\ \A n \in 1..Len(log) :
       log[n].ev = "request" => \A m \in 1..(n - 1) : log[m].ev # "save"
  /\ (Loaded /\ ~config["download_pdfs"]) => (Count("transfer") = 0 /\ run = 0)

\* a run that fetched, saved and then transferred an artifact
StagesWitness ==
  /\ pc = "done"
  /\ config["download_pdfs"]
  /\ Count("request") >= 2
  /\ Count("save") = 1
  /\ Count("downloaded") >= 1

\* --------------------------------------------------------------------- C14
\* the first link of type application/pdf, as a sequence of zero or one link
RECURSIVE FirstPdfLink(_)
FirstPdfLink(links) ==
  IF links = <<>> THEN <<>>
  ELSE IF "type" \in DOMAIN Head(links) /\ Head(links).type = <<"application/pdf">>
    THEN <<Head(links)>>
    ELSE FirstPdfLink(Tail(links))

EntryLinks == IF "links" \in DOMAIN RawEntry THEN RawEntry.links ELSE <<>>

IdHasAbs == "id" \in DOMAIN RawEntry /\ \E i \in 1..Len(RawEntry.id) : RawEntry.id[i] = "/abs/"

\* the identifier after its scheme, with every /abs/ turned into /pdf/
PdfTail == [i \in 1..(Len(RawEntry.id) - 1) |->
              IF RawEntry.id[i + 1] = "/abs/" THEN "/pdf/" ELSE RawEntry.id[i + 1]]

\* C14: the PDF address of a record is (a) the href of the first link of type
\* application/pdf when the entry has one; (b) otherwise, for an id with /abs/,
\* http:// followed by the id after its scheme with /abs/ turned into /pdf/,
\* followed by .pdf; (c) otherwise none. https://host/abs/2401.12345 without
\* a PDF link gives http://host/pdf/2401.12345.pdf.
PdfUrlResolutionOrder ==
  pc = "normalized" =>
    /\ FirstPdfLink(EntryLinks) # <<>> =>
         Record.pdf_url = IF "href" \in DOMAIN FirstPdfLink(EntryLinks)[1]
                            THEN FirstPdfLink(EntryLinks)[1].href
                            ELSE NoneStr
    /\ (FirstPdfLink(EntryLinks) = <<>> /\ IdHasAbs) =>
         /\ RawEntry.id[1] \in {"http://", "https://"}
         /\ Record.pdf_url = <<"http://">> \o PdfTail \o <<".pdf">>
    /\ (FirstPdfLink(EntryLinks) = <<>> /\ ~IdHasAbs) => Record.pdf_url = NoneStr
    /\ RawEntry = [id |-> <<"https://", "host", "/abs/", "2401.12345">>] =>
         Record.pdf_url = <<"http://", "host", "/pdf/", "2401.12345", ".pdf">>

\* the https identifier without links was rewritten
PdfFallbackWitness ==
  /\ pc = "normalized"
  /\ RawEntry = [id |-> <<"https://", "host", "/abs/", "2401.12345">>]
  /\ Record.pdf_url = <<"http://", "host", "/pdf/", "2401.12345", ".pdf">>

\* --------------------------------------------------------------------- C15
\* all:"k1" OR ... OR all:"kn", built from the last keyword backwards
RECURSIVE KeywordDisjunction(_)
KeywordDisjunction(ks) ==
  IF Len(ks) = 1 THEN <<"all:\"">> \o ks[1] \o <<"\"">>
  ELSE KeywordDisjunction(SubSeq(ks, 1, Len(ks) - 1))
         \o <<" OR ", "all:\"">> \o ks[Len(ks)] \o <<"\"">>

\* cat:c1 OR ... OR cat:cn
RECURSIVE CategoryDisjunction(_)
CategoryDisjunction(cs) ==
  IF Len(cs) = 1 THEN <<"cat:">> \o cs[1]
  ELSE CategoryDisjunction(SubSeq(cs, 1, Len(cs) - 1)) \o <<" OR ", "cat:">> \o cs[Len(cs)]

GivenCategories == IF "ArXiv_categories" \in DOMAIN config THEN config["ArXiv_categories"] ELSE <<>>

\* C15: for a non-empty keyword list the query is non-empty and is the
\* parenthesised OR-chain of all:"keyword" clauses in input order, followed,
\* when there is at least one category, by AND and the parenthesised OR-chain
\* of cat:category clauses; keywords [llm, rag] with categories [cs.CL] give
\* (all:"llm" OR all:"rag") AND (cat:cs.CL).
QueryShape ==
  (pc = "built" /\ config["keywords"] # <<>>) =>
    /\ query # <<>>
    /\ GivenCategories = <<>> =>
         query = <<"(">> \o KeywordDisjunction(config["keywords"]) \o <<")">>
    /\ GivenCategories # <<>> =>
         query = <<"(">> \o KeywordDisjunction(config["keywords"]) \o <<") AND (">>
                   \o CategoryDisjunction(GivenCategories) \o <<")">>
    /\ (config["keywords"] = << <<"llm">>, <<"rag">> >> /\ GivenCategories = << <<"cs.CL">> >>) =>
         query = <<"(", "all:\"", "llm", "\"", " OR ", "all:\"", "rag", "\"",
                   ") AND (", "cat:", "cs.CL", ")">>

\* the query of the example was built
QueryExampleWitness ==
  /\ pc = "built"
  /\ config["keywords"] = << <<"llm">>, <<"rag">> >>
  /\ GivenCategories = << <<"cs.CL">> >>
  /\ query = <<"(", "all:\"", "llm", "\"", " OR ", "all:\"", "rag", "\"",
               ") AND (", "cat:", "cs.CL", ")">>

\* --------------------------------------------------------------------- C16
\* C16: every page request starts at the number of entries received before it
\* (0 for the first) and asks for min(batch_size, total_to_fetch - start)
\* entries; so with batch_size >= 1 it asks for 1 to batch_size entries and is
\* only made while start < total_to_fetch.
RequestWindow ==
  \A k \in 1..Len(Requests) :
    LET start == Requests[k].start
        remaining == config["total_to_fetch"] - start
    IN /\ start = Len(ReceivedUpTo(k - 1))
       /\ k = 1 => start = 0
       /\ remaining >= config["batch_size"] => Requests[k].max_results = config["batch_size"]
       /\ remaining < config["batch_size"] => Requests[k].max_results = remaining
       /\ config["batch_size"] >= 1 =>
            (1 <= Requests[k].max_results /\ Requests[k].max_results <= config["batch_size"])
       /\ start < config["total_to_fetch"]

\* a later request asked for the remainder, which was less than batch_size
RemainderRequestWitness ==
  /\ Len(Requests) >= 2
  /\ Requests[2].start >= 1
  /\ Requests[2].max_results < config["batch_size"]
  /\ Requests[2].max_results = config["total_to_fetch"] - Requests[2].start

\* --------------------------------------------------------------------- C17
\* main up to the return of fetch_and_process_papers. The program is a single
\* thread that keeps running, and every arxiv_search call returns or raises:
\* weak fairness of the steps.
DriverNext ==
  \/ LoadConfig
  \/ BuildSearchQuery
  \/ FetchInit
  \/ FetchRaise
  \/ FetchEmpty
  \/ FetchPage
  \/ SaveAndReturn

DriverSpec == Init /\ [][DriverNext]_vars /\ WF_vars(DriverNext)

\* C17: the loop ends: a run that entered FETCHING leaves it for good, having
\* made at most max(total_to_fetch, 0) page requests, and none at all when
\* total_to_fetch <= 0, whatever the calls return or raise.
PaginationTerminates ==
  /\ [](Loaded => Len(Requests) <= (IF config["total_to_fetch"] > 0 THEN config["total_to_fetch"] ELSE 0))
  /\ []((Loaded /\ config["total_to_fetch"] <= 0) => (Len(Requests) = 0 /\ pc # "fetching"))
  /\ (pc = "fetching") ~> [](pc \in {"download_gate", "error"})

\* a run that needed as many requests as total_to_fetch allows and has returned
MaxRequestsWitness ==
  /\ pc = "download_gate"
  /\ config["total_to_fetch"] >= 2
  /\ Len(Requests) = config["total_to_fetch"]

\* --------------------------------------------------------------------- C18
\* positions of the log strictly between n and m that hold an event of kind ev
Between(ev, n, m) == {j \in (n + 1)..(m - 1) : log[j].ev = ev}

\* C18: between two consecutive page requests the driver pauses once, and it
\* does not pause before the first request.
PauseBetweenRequests ==
  \A m \in 1..Len(log) :
    log[m].ev = "request" =>
      /\ \A n \in 1..(m - 1) :
           (log[n].ev = "request" /\ Between("request", n, m) = {}) =>
             Cardinality(Between("sleep", n, m)) = 1
      /\ Between("request", 0, m) = {} => Between("sleep", 0, m) = {}

\* a run made three page requests
ThreeRequestsWitness ==
  /\ Len(Requests) = 3
  /\ Count("sleep") >= 2
  /\ pc = "done"

\* --------------------------------------------------------------------- C19
\* the events a step appended to the log
Appended == IF Len(log') > Len(log) THEN SubSeq(log', Len(log) + 1, Len(log')) ELSE <<>>

AppendedHas(ev) == \E j \in 1..Len(Appended) : Appended[j].ev = ev

\* C19: a record is transferred exactly when it is reached with a non-empty
\* pdf_url and no file at its destination; the downloader pauses right after
\* a successful transfer, before it reaches the next record, and never for a
\* skipped record or after a failed transfer.
TransferAndPauseRule ==
  [][ pc = "downloading" =>
        /\ AppendedHas("transfer") <=> (Truthy(Rec.pdf_url) /\ ~Exists(RecPath))
        /\ AppendedHas("transfer") => Appended[1] = Transfer
        /\ AppendedHas("downloaded") =>
             (Len(Appended) = 3 /\ Appended[3] = Sleep /\ ~AppendedHas("failed"))
        /\ ~AppendedHas("downloaded") => ~AppendedHas("sleep")
        /\ AppendedHas("transfer") => (AppendedHas("downloaded") \/ AppendedHas("failed"))
        /\ idx' = idx + 1 ]_vars

\* one run skipped a record, had a failed and a successful transfer
MixedDownloadWitness ==
  /\ pc = "done"
  /\ run = 1
  /\ Len(returned) = 3
  /\ Cardinality(EventsOf("transfer", 1)) = 2
  /\ Cardinality(EventsOf("failed", 1)) = 1
  /\ Cardinality(EventsOf("downloaded", 1)) = 1

====
